---- MODULE Spec2Model ----
(***************************************************************************)
(* Model of the category, product and review handlers of the e-commerce    *)
(* backend (app/routers/categories.py, products.py, reviews.py).           *)
(*                                                                         *)
(* The store is three tables; a row's id is its index in the table         *)
(* (autoincrement primary keys, rows are never physically deleted).        *)
(* Category.name stands alone; price stands for the product payload        *)
(* (name, description, price, image_url, stock); a review's comment and    *)
(* comment_date are left out: no handler reads them.  A rating is the      *)
(* exact quotient, not its floating-point rounding.                        *)
(*                                                                         *)
(* last is the handler and outcome of the latest completed call.           *)
(* req holds, per concurrent request, the position and locals of its       *)
(* handler, and two history flags: overlap (another review mutation was    *)
(* in flight during this one) and stale (a review was committed after      *)
(* this request read its average).  fresh is the set of products whose     *)
(* rating was last written from an average no later commit has outdated.   *)
(*                                                                         *)
(* Spec     every handler, one request at a time, from the empty store     *)
(* SpecCat  the category and product handlers, from the empty store        *)
(* SpecRev  the review handlers, one request at a time                     *)
(* SpecConc the review handlers of concurrent requests, one step per       *)
(*          store round trip (the awaits between them are where another    *)
(*          request can run)                                               *)
(***************************************************************************)
EXTENDS Integers, Sequences, FiniteSets

VARIABLES categories, products, reviews, last, req, fresh

store == <<categories, products, reviews>>
vars == <<categories, products, reviews, last, req, fresh>>

----------------------------------------------------------------------------
(* Bounds of the model *)

MaxCategories == 2
MaxProducts == 1
MaxReviews == 3
\* reviews of the concurrent specification
MaxConcReviews == 2
\* request slots of the concurrent specification
Requests == {"r1", "r2"}

----------------------------------------------------------------------------
(* Principals supplied by the authentication dependencies *)

Users == {"buyer1", "seller1", "seller2", "admin1"}

role ==
  [u \in Users |->
     CASE u = "buyer1" -> "buyer"
       [] u = "seller1" -> "seller"
       [] u = "seller2" -> "seller"
       [] OTHER -> "admin"]

get_current_user == Users
get_current_seller == {u \in Users : role[u] = "seller"}
get_current_admin == {u \in Users : role[u] = "admin"}

----------------------------------------------------------------------------
(* Request payloads *)

\* parent_id = None
NULL == 0

Names == {"n1"}
Prices == {"p1"}
Grades == {0, 3, 4, 5, 6}

CategoryIds == 1..(MaxCategories + 1)
ProductIds == 1..(MaxProducts + 2)
ReviewIds == 1..(MaxReviews + 1)

\* CategoryCreate: name is required; parent_id and is_active are optional.
\* fields_set holds the optional fields the caller supplied; an optional
\* field that was not supplied holds its default.
CategoryCreate ==
  {c \in [name : Names, parent_id : {NULL} \cup CategoryIds,
          is_active : BOOLEAN, fields_set : SUBSET {"parent_id", "is_active"}] :
     /\ ("parent_id" \notin c.fields_set => c.parent_id = NULL)
     /\ ("is_active" \notin c.fields_set => c.is_active = TRUE)}

ProductCreate == [price : Prices, category_id : CategoryIds]

ReviewCreate == [product_id : ProductIds, grade : Grades]

----------------------------------------------------------------------------
(* Ratings are exact fractions <<numerator, denominator>> in lowest terms *)

RECURSIVE GCD(_, _)
GCD(a, b) == IF b = 0 THEN a ELSE GCD(b, a % b)

Frac(n, d) == <<n \div GCD(n, d), d \div GCD(n, d)>>

Zero == <<0, 1>>

\* Product.rating of a new product
DefaultRating == Zero

RECURSIVE SumGrades(_, _)
SumGrades(rs, ids) ==
  IF ids = {} THEN 0
  ELSE LET i == CHOOSE x \in ids : TRUE
       IN rs[i].grade + SumGrades(rs, ids \ {i})

----------------------------------------------------------------------------
(* Store queries and writes *)

\* select(CategoryModel).where(id == category_id)
CategoryExists(cs, category_id) == category_id \in 1..Len(cs)

\* select(CategoryModel).where(id == category_id, is_active == True)
CategoryActive(cs, category_id) ==
  category_id \in 1..Len(cs) /\ cs[category_id].is_active

\* select(ProductModel).where(id == product_id, is_active == True)
ProductActive(ps, product_id) ==
  product_id \in 1..Len(ps) /\ ps[product_id].is_active

\* mutant: the review lookup does not filter on is_active
ReviewActive_AnyRow(rs, review_id) == review_id \in 1..Len(rs)

\* select(ReviewModel).where(id == review_id, is_active == True)
ReviewActive(rs, review_id) ==
  review_id \in 1..Len(rs) /\ rs[review_id].is_active

\* mutant: the is_active filter is forgotten
ActiveReviews_AllRows(rs, product_id) ==
  {i \in 1..Len(rs) : rs[i].product_id = product_id}

\* where(ReviewModel.product_id == product_id, ReviewModel.is_active == True)
ActiveReviews(rs, product_id) ==
  {i \in 1..Len(rs) : rs[i].product_id = product_id /\ rs[i].is_active}

\* mutant: func.sum in place of func.avg
AvgGrade_Sum(rs, product_id) ==
  LET ids == ActiveReviews(rs, product_id)
  IN IF ids = {} THEN Zero ELSE Frac(SumGrades(rs, ids), 1)

\* select(func.avg(grade)) ... result.scalar() or 0.0
AvgGrade(rs, product_id) ==
  LET ids == ActiveReviews(rs, product_id)
  IN IF ids = {} THEN Zero
     ELSE Frac(SumGrades(rs, ids), Cardinality(ids))

\* mutant: the rating is assigned but the write is never committed
SetRating_NotCommitted(ps, product_id, avg_rating) == ps

\* product.rating = avg_rating; commit
SetRating(ps, product_id, avg_rating) ==
  [ps EXCEPT ![product_id].rating = avg_rating]

update_product_rating(ps, rs, product_id) ==
  SetRating(ps, product_id, AvgGrade(rs, product_id))

\* db.add(ReviewModel(**review.model_dump(), user_id=current_user.id)); commit
InsertReview(rs, review, current_user) ==
  Append(rs, [user_id |-> current_user, product_id |-> review.product_id,
              grade |-> review.grade, is_active |-> TRUE])

\* update(ReviewModel).where(id == review_id).values(is_active=False); commit
DeactivateReview(rs, review_id) ==
  [rs EXCEPT ![review_id].is_active = FALSE]

\* mutant: only the lower bound is checked
GradeOutOfRange_LowerOnly(grade) == grade < 1

\* review.grade < 1 or review.grade > 5
GradeOutOfRange(grade) == grade < 1 \/ grade > 5

\* mutant: the self-parent check is missing
IsSelfParent_Never(parent_id, category_id) == FALSE

\* parent.id == category_id
IsSelfParent(parent_id, category_id) == parent_id = category_id

\* db_product.seller_id != current_user.id
NotOwner(product, current_user) == product.seller_id # current_user

\* update(CategoryModel).values(**category.model_dump(exclude_unset=True))
ApplyCategoryUpdate(row, category) ==
  [name |-> category.name,
   parent_id |-> IF "parent_id" \in category.fields_set
                   THEN category.parent_id ELSE row.parent_id,
   is_active |-> IF "is_active" \in category.fields_set
                   THEN category.is_active ELSE row.is_active]

----------------------------------------------------------------------------
(* Initial state: an empty store, no request in flight *)

Idle ==
  [pc |-> "idle", op |-> "none", user |-> "none", product_id |-> 0, grade |-> 0,
   review_id |-> 0, avg |-> Zero, stale |-> FALSE, overlap |-> FALSE]

Init ==
  /\ categories = <<>>
  /\ products = <<>>
  /\ reviews = <<>>
  /\ last = [op |-> "none", result |-> "none"]
  /\ req = [p \in Requests |-> Idle]
  /\ fresh = {}

Done(op, result) == last' = [op |-> op, result |-> result]

----------------------------------------------------------------------------
(* categories.py *)

\* mutant: the parent lookup is skipped
create_category_NoParentCheck(category) ==
  /\ Len(categories) < MaxCategories
  /\ categories' = Append(categories,
       [name |-> category.name, parent_id |-> category.parent_id,
        is_active |-> category.is_active])
  /\ Done("create_category", "Created")
  /\ UNCHANGED <<products, reviews, req, fresh>>

create_category(category) ==
  /\ IF category.parent_id # NULL /\ ~CategoryExists(categories, category.parent_id)
       THEN /\ Done("create_category", "ParentNotFound")
            /\ UNCHANGED categories
       ELSE /\ Len(categories) < MaxCategories
            /\ categories' = Append(categories,
                 [name |-> category.name, parent_id |-> category.parent_id,
                  is_active |-> category.is_active])
            /\ Done("create_category", "Created")
  /\ UNCHANGED <<products, reviews, req, fresh>>

update_category(category_id, category) ==
  /\ IF ~CategoryExists(categories, category_id)
       THEN /\ Done("update_category", "CategoryNotFound")
            /\ UNCHANGED categories
       ELSE IF category.parent_id # NULL /\ ~CategoryExists(categories, category.parent_id)
       THEN /\ Done("update_category", "ParentNotFound")
            /\ UNCHANGED categories
       ELSE IF category.parent_id # NULL /\ IsSelfParent(category.parent_id, category_id)
       THEN /\ Done("update_category", "SelfParentError")
            /\ UNCHANGED categories
       ELSE /\ categories' = [categories EXCEPT ![category_id] =
                                ApplyCategoryUpdate(categories[category_id], category)]
            /\ Done("update_category", "OK")
  /\ UNCHANGED <<products, reviews, req, fresh>>

\* db.scalar(...) returns the selected id or None, neither of which has
\* .first(): the handler raises before its lookup result is examined.
delete_category(category_id) ==
  /\ Done("delete_category", "InternalServerError")
  /\ UNCHANGED <<categories, products, reviews, req, fresh>>

----------------------------------------------------------------------------
(* products.py *)

create_product(product, current_user) ==
  /\ IF ~CategoryActive(categories, product.category_id)
       THEN /\ Done("create_product", "CategoryNotFound")
            /\ UNCHANGED products
       ELSE /\ Len(products) < MaxProducts
            /\ products' = Append(products,
                 [category_id |-> product.category_id, price |-> product.price,
                  seller_id |-> current_user, rating |-> DefaultRating,
                  is_active |-> TRUE])
            /\ Done("create_product", "Created")
  /\ UNCHANGED <<categories, reviews, req, fresh>>

\* mutant: the update is issued before the category lookup
update_product_WriteFirst(product_id, product, current_user) ==
  /\ IF ~ProductActive(products, product_id)
       THEN /\ Done("update_product", "ProductNotFound")
            /\ UNCHANGED products
       ELSE IF NotOwner(products[product_id], current_user)
       THEN /\ Done("update_product", "ForbiddenRole")
            /\ UNCHANGED products
       ELSE /\ products' = [products EXCEPT
                              ![product_id].category_id = product.category_id,
                              ![product_id].price = product.price]
            /\ Done("update_product",
                    IF CategoryActive(categories, product.category_id)
                      THEN "OK" ELSE "CategoryNotFound")
  /\ UNCHANGED <<categories, reviews, req, fresh>>

update_product(product_id, product, current_user) ==
  /\ IF ~ProductActive(products, product_id)
       THEN /\ Done("update_product", "ProductNotFound")
            /\ UNCHANGED products
       ELSE IF NotOwner(products[product_id], current_user)
       THEN /\ Done("update_product", "ForbiddenRole")
            /\ UNCHANGED products
       ELSE IF ~CategoryActive(categories, product.category_id)
       THEN /\ Done("update_product", "CategoryNotFound")
            /\ UNCHANGED products
       ELSE /\ products' = [products EXCEPT
                              ![product_id].category_id = product.category_id,
                              ![product_id].price = product.price]
            /\ Done("update_product", "OK")
  /\ UNCHANGED <<categories, reviews, req, fresh>>

\* ProductModel.price.between() is called without its two bounds: building
\* the query raises before the store is read.
delete_product(product_id, current_user) ==
  /\ Done("delete_product", "InternalServerError")
  /\ UNCHANGED <<categories, products, reviews, req, fresh>>

----------------------------------------------------------------------------
(* reviews.py, one request at a time *)

create_review(review, current_user) ==
  /\ IF role[current_user] # "buyer"
       THEN /\ Done("create_review", "ForbiddenRole")
            /\ UNCHANGED <<products, reviews>>
       ELSE IF GradeOutOfRange(review.grade)
       THEN /\ Done("create_review", "InvalidGrade")
            /\ UNCHANGED <<products, reviews>>
       ELSE IF ~ProductActive(products, review.product_id)
       THEN /\ Done("create_review", "ProductNotFound")
            /\ UNCHANGED <<products, reviews>>
       ELSE /\ Len(reviews) < MaxReviews
            /\ reviews' = InsertReview(reviews, review, current_user)
            /\ products' = update_product_rating(products, reviews', review.product_id)
            /\ Done("create_review", "Created")
  /\ UNCHANGED <<categories, req, fresh>>

delete_review(review_id, current_user) ==
  /\ IF ~ReviewActive(reviews, review_id)
       THEN /\ Done("delete_review", "ReviewNotFound")
            /\ UNCHANGED <<products, reviews>>
       ELSE IF ~ProductActive(products, reviews[review_id].product_id)
       THEN /\ Done("delete_review", "ProductNotFound")
            /\ UNCHANGED <<products, reviews>>
       ELSE /\ reviews' = DeactivateReview(reviews, review_id)
            /\ products' = update_product_rating(products, reviews',
                                                 reviews[review_id].product_id)
            /\ Done("delete_review", "OK")
  /\ UNCHANGED <<categories, req, fresh>>

----------------------------------------------------------------------------
(* reviews.py, concurrent requests: one step per store round trip *)

InFlight(q) == req[q].pc # "idle"

\* reviews some request has been cleared to insert but has not inserted yet
PendingInserts ==
  Cardinality({q \in Requests : req[q].pc = "checked" /\ req[q].op = "create_review"})

\* a request that passes its checks starts while the others are in flight
Admit(p, r) ==
  req' = [q \in Requests |->
            IF q = p THEN [r EXCEPT !.overlap = \E o \in Requests \ {p} : InFlight(o)]
            ELSE IF InFlight(q) THEN [req[q] EXCEPT !.overlap = TRUE]
            ELSE req[q]]

\* lines 42-64: the role and grade checks and the product lookup
begin_create_review(p, review, current_user) ==
  /\ req[p].pc = "idle"
  /\ IF role[current_user] # "buyer"
       THEN /\ Done("create_review", "ForbiddenRole")
            /\ UNCHANGED req
       ELSE IF GradeOutOfRange(review.grade)
       THEN /\ Done("create_review", "InvalidGrade")
            /\ UNCHANGED req
       ELSE IF ~ProductActive(products, review.product_id)
       THEN /\ Done("create_review", "ProductNotFound")
            /\ UNCHANGED req
       ELSE /\ Len(reviews) + PendingInserts < MaxConcReviews
            /\ Admit(p, [Idle EXCEPT !.pc = "checked", !.op = "create_review",
                                     !.user = current_user,
                                     !.product_id = review.product_id,
                                     !.grade = review.grade])
            /\ UNCHANGED last
  /\ UNCHANGED <<categories, products, reviews, fresh>>

\* lines 85-109: the review lookup and the product lookup
begin_delete_review(p, review_id, current_user) ==
  /\ req[p].pc = "idle"
  /\ IF ~ReviewActive(reviews, review_id)
       THEN /\ Done("delete_review", "ReviewNotFound")
            /\ UNCHANGED req
       ELSE IF ~ProductActive(products, reviews[review_id].product_id)
       THEN /\ Done("delete_review", "ProductNotFound")
            /\ UNCHANGED req
       ELSE /\ Admit(p, [Idle EXCEPT !.pc = "checked", !.op = "delete_review",
                                     !.user = current_user,
                                     !.product_id = reviews[review_id].product_id,
                                     !.review_id = review_id])
            /\ UNCHANGED last
  /\ UNCHANGED <<categories, products, reviews, fresh>>

\* lines 66-69 and 111-114: the review write and its commit.  A commit
\* outdates the stored rating and every average already read for the product.
commit_review(p) ==
  /\ req[p].pc = "checked"
  /\ reviews' = IF req[p].op = "create_review"
                  THEN InsertReview(reviews,
                         [product_id |-> req[p].product_id, grade |-> req[p].grade],
                         req[p].user)
                  ELSE DeactivateReview(reviews, req[p].review_id)
  /\ req' = [q \in Requests |->
              IF q = p THEN [req[p] EXCEPT !.pc = "committed"]
              ELSE IF req[q].pc = "read" /\ req[q].product_id = req[p].product_id
                THEN [req[q] EXCEPT !.stale = TRUE]
              ELSE req[q]]
  /\ fresh' = fresh \ {req[p].product_id}
  /\ UNCHANGED <<categories, products, last>>

\* lines 121-127: update_product_rating reads the average
read_avg(p) ==
  /\ req[p].pc = "committed"
  /\ req' = [req EXCEPT ![p].pc = "read",
                        ![p].avg = AvgGrade(reviews, req[p].product_id),
                        ![p].stale = FALSE]
  /\ UNCHANGED <<categories, products, reviews, last, fresh>>

\* lines 128-130: update_product_rating writes the rating and commits
write_rating(p) ==
  /\ req[p].pc = "read"
  /\ products' = SetRating(products, req[p].product_id, req[p].avg)
  /\ fresh' = IF req[p].stale THEN fresh \ {req[p].product_id}
                              ELSE fresh \cup {req[p].product_id}
  /\ req' = [req EXCEPT ![p] = Idle]
  /\ Done(req[p].op, IF req[p].op = "create_review" THEN "Created" ELSE "OK")
  /\ UNCHANGED <<categories, reviews>>

----------------------------------------------------------------------------
(* Specifications *)

\* every handler, one request at a time, from the empty store
Next ==
  \/ \E category \in CategoryCreate : create_category(category)
  \/ \E category_id \in CategoryIds, category \in CategoryCreate :
        update_category(category_id, category)
  \/ \E category_id \in CategoryIds : delete_category(category_id)
  \/ \E product \in ProductCreate, u \in get_current_seller : create_product(product, u)
  \/ \E product_id \in ProductIds, product \in ProductCreate, u \in get_current_seller :
        update_product(product_id, product, u)
  \/ \E product_id \in ProductIds, u \in get_current_seller : delete_product(product_id, u)
  \/ \E review \in ReviewCreate, u \in get_current_user : create_review(review, u)
  \/ \E review_id \in ReviewIds, u \in get_current_admin : delete_review(review_id, u)

Spec == Init /\ [][Next]_vars

\* the category and product handlers, from the empty store
NextCat ==
  \/ \E category \in CategoryCreate : create_category(category)
  \/ \E category_id \in CategoryIds, category \in CategoryCreate :
        update_category(category_id, category)
  \/ \E category_id \in CategoryIds : delete_category(category_id)
  \/ \E product \in ProductCreate, u \in get_current_seller : create_product(product, u)
  \/ \E product_id \in ProductIds, product \in ProductCreate, u \in get_current_seller :
        update_product(product_id, product, u)
  \/ \E product_id \in ProductIds, u \in get_current_seller : delete_product(product_id, u)

SpecCat == Init /\ [][NextCat]_vars

\* a store with one category and a product of each seller, as left by
\* create_category and two create_product calls
InitRev ==
  /\ categories = <<[name |-> "n1", parent_id |-> NULL, is_active |-> TRUE]>>
  /\ products = <<[category_id |-> 1, price |-> "p1", seller_id |-> "seller1",
                   rating |-> DefaultRating, is_active |-> TRUE],
                  [category_id |-> 1, price |-> "p1", seller_id |-> "seller2",
                   rating |-> DefaultRating, is_active |-> TRUE]>>
  /\ reviews = <<>>
  /\ last = [op |-> "none", result |-> "none"]
  /\ req = [p \in Requests |-> Idle]
  /\ fresh = {}

\* the review handlers, one request at a time
NextRev ==
  \/ \E review \in ReviewCreate, u \in get_current_user : create_review(review, u)
  \/ \E review_id \in ReviewIds, u \in get_current_admin : delete_review(review_id, u)

SpecRev == InitRev /\ [][NextRev]_vars

\* a store with one category and one product, as left by create_category
\* and create_product
InitConc ==
  /\ categories = <<[name |-> "n1", parent_id |-> NULL, is_active |-> TRUE]>>
  /\ products = <<[category_id |-> 1, price |-> "p1", seller_id |-> "seller1",
                   rating |-> DefaultRating, is_active |-> TRUE]>>
  /\ reviews = <<>>
  /\ last = [op |-> "none", result |-> "none"]
  /\ req = [p \in Requests |-> Idle]
  /\ fresh = {}

\* the review handlers of concurrent requests
NextConc ==
  \E p \in Requests :
    \/ \E review \in ReviewCreate, u \in get_current_user : begin_create_review(p, review, u)
    \/ \E review_id \in ReviewIds, u \in get_current_admin :
          begin_delete_review(p, review_id, u)
    \/ commit_review(p)
    \/ read_avg(p)
    \/ write_rating(p)

SpecConc == InitConc /\ [][NextConc]_vars

----------------------------------------------------------------------------
(* Properties *)

RECURSIVE GradeTotal(_)
GradeTotal(ids) ==
  IF ids = {} THEN 0
  ELSE LET i == CHOOSE x \in ids : TRUE
       IN reviews[i].grade + GradeTotal(ids \ {i})

Counted(product_id) ==
  {i \in 1..Len(reviews) : reviews[i].product_id = product_id /\ reviews[i].is_active = TRUE}

\* rating x count = sum of grades, and 0.0 with no active review
RatingIsMean(product_id) ==
  LET rating == products[product_id].rating
  IN IF Counted(product_id) = {} THEN rating = <<0, 1>>
     ELSE /\ rating[2] > 0
          /\ rating[1] * Cardinality(Counted(product_id))
               = GradeTotal(Counted(product_id)) * rating[2]

Quiescent == \A q \in Requests : req[q].pc = "idle"

ErrorKinds ==
  {"CategoryNotFound", "ProductNotFound", "ReviewNotFound", "ParentNotFound",
   "SelfParentError", "InvalidGrade", "ForbiddenRole"}

\* products a review operation has completed on: those with a review row
Reviewed == {reviews[i].product_id : i \in 1..Len(reviews)}

\* C1: with review operations run one at a time, after each of them the
\* rating of every reviewed product is the mean of the grades of its active
\* reviews (rating x count = sum), and 0.0 when it has none left;
\* soft-deleted reviews do not contribute.
C1_RatingIsMeanOfActive ==
  \A product_id \in Reviewed : RatingIsMean(product_id)

\* grades 4, 5, 3 on one product gave 4.0; with the 3 soft-deleted: 4.5
C1_Witness ==
  /\ Len(reviews) = 3
  /\ \A i \in 1..3 : reviews[i].product_id = 1
  /\ reviews[1].grade = 4 /\ reviews[2].grade = 5 /\ reviews[3].grade = 3
  /\ reviews[1].is_active /\ reviews[2].is_active /\ ~reviews[3].is_active
  /\ last = [op |-> "delete_review", result |-> "OK"]
  /\ products[1].rating = <<9, 2>>

\* C2: with concurrent review mutations, when nothing is in flight a stored
\* rating differs from the mean of the active reviews only through a lost
\* update: the rating was last written from an average read before a later
\* review commit.
C2_StaleOnlyByLostUpdate ==
  \A product_id \in 1..Len(products) :
    (Quiescent /\ product_id \in fresh) => RatingIsMean(product_id)

\* nothing in flight, and the stored rating is not the mean
C2_Witness ==
  /\ Quiescent
  /\ last.result \in {"Created", "OK"}
  /\ \E product_id \in 1..Len(products) :
       product_id \notin fresh /\ ~RatingIsMean(product_id)

\* C3 as stated: every create_review call with a grade outside 1..5 reports
\* InvalidGrade and adds no review.
C3_AlwaysInvalidGrade ==
  [][last'.op = "create_review" =>
       \A review \in ReviewCreate, u \in get_current_user :
         ((review.grade < 1 \/ review.grade > 5) /\ create_review(review, u))
           => (last'.result = "InvalidGrade" /\ reviews' = reviews)]_vars

\* C3 amended: every stored review has a grade in 1..5; a call that reports
\* InvalidGrade adds no review; and a create_review call with a grade
\* outside 1..5 adds no review and reports InvalidGrade when its caller is a
\* buyer (a caller of another role is refused with ForbiddenRole first).
C3_GradeBound ==
  [][/\ \A i \in 1..Len(reviews') : reviews'[i].grade \in 1..5
     /\ last'.result = "InvalidGrade" => reviews' = reviews
     /\ (last'.op = "create_review" /\ last'.result # "InvalidGrade") =>
          \A u \in get_current_user, review \in ReviewCreate :
            (review.grade < 1 \/ review.grade > 5) =>
              \/ (reviews' = reviews /\ role[u] # "buyer")
              \/ ~create_review(review, u)]_vars

\* a buyer's review was rejected for its grade while reviews are stored
C3_Witness ==
  /\ last = [op |-> "create_review", result |-> "InvalidGrade"]
  /\ Len(reviews) > 0

\* C4: a call of create_review, delete_review, create_category,
\* update_category or update_product that ends with an error kind leaves
\* categories, products and reviews as they were.
C4_ErrorsLeaveStoreUnchanged ==
  [][(/\ last'.op \in {"create_review", "delete_review", "create_category",
                        "update_category", "update_product"}
      /\ last'.result \in ErrorKinds)
       => UNCHANGED store]_vars

\* a seller was refused the update of another seller's product, which has
\* a review
C4_Witness ==
  /\ last = [op |-> "update_product", result |-> "ForbiddenRole"]
  /\ Len(products) > 0
  /\ Len(reviews) > 0

\* C5: delete_review of an already soft-deleted review fails with
\* ReviewNotFound and changes no review and no rating, and a soft-deleted
\* review never becomes active again.
C5_DeleteNotIdempotent ==
  [][/\ last'.op = "delete_review" =>
          \A review_id \in 1..Len(reviews), u \in get_current_admin :
            (~reviews[review_id].is_active /\ delete_review(review_id, u))
              => /\ last'.result = "ReviewNotFound"
                 /\ reviews' = reviews
                 /\ products' = products
     /\ \A review_id \in 1..Len(reviews) :
          ~reviews[review_id].is_active
            => (review_id \in 1..Len(reviews') /\ ~reviews'[review_id].is_active)]_vars

\* a second delete of a soft-deleted review was refused
C5_Witness ==
  /\ last = [op |-> "delete_review", result |-> "ReviewNotFound"]
  /\ \E review_id \in 1..Len(reviews) : ~reviews[review_id].is_active

\* C6: no category ever has its own id as parent_id, and update_category of
\* an existing category with parent_id equal to its own id ends with
\* SelfParentError and leaves the categories unchanged.
C6_NoSelfParent ==
  [][/\ \A id \in 1..Len(categories') : categories'[id].parent_id # id
     /\ last'.result = "SelfParentError" => categories' = categories
     /\ (last'.op = "update_category" /\ last'.result # "SelfParentError") =>
          \A id \in 1..Len(categories), name \in Names, flag \in BOOLEAN,
             fs \in SUBSET {"is_active"} :
            LET category == [name |-> name, parent_id |-> id, is_active |-> flag,
                             fields_set |-> fs \cup {"parent_id"}]
            IN category \in CategoryCreate => ~update_category(id, category)]_vars

\* an update naming the category itself as parent was refused
C6_Witness ==
  /\ last = [op |-> "update_category", result |-> "SelfParentError"]
  /\ Len(categories) > 0

\* C7: a create_category or update_category that names an existing but
\* inactive parent is rejected (create with ParentNotFound) and changes no
\* category.
C7_InactiveParentRejected ==
  [][\A category \in CategoryCreate :
       (/\ category.parent_id \in 1..Len(categories)
        /\ ~categories[category.parent_id].is_active)
         => /\ create_category(category)
                 => (last'.result = "ParentNotFound" /\ categories' = categories)
            /\ \A id \in 1..Len(categories) :
                 update_category(id, category)
                   => (last'.result \in ErrorKinds /\ categories' = categories)]_vars

\* following parent_id from a category reaches a root within as many hops
\* as there are categories
RECURSIVE ReachesRoot(_, _)
ReachesRoot(id, hops) ==
  IF id = 0 THEN TRUE
  ELSE IF hops = 0 \/ id \notin 1..Len(categories) THEN FALSE
  ELSE ReachesRoot(categories[id].parent_id, hops - 1)

Acyclic == \A id \in 1..Len(categories) : ReachesRoot(id, Len(categories))

\* C8 as stated: the parent-reference graph is always acyclic.
C8_AlwaysAcyclic == Acyclic

\* C8 amended: every non-null parent_id names an existing category other
\* than the category itself, and create_category never closes a cycle; only
\* update_category can close one, of two or more hops.
C8_NoCycleFromCreate ==
  [][/\ \A id \in 1..Len(categories') :
          /\ categories'[id].parent_id \in 0..Len(categories')
          /\ categories'[id].parent_id # id
     /\ (last'.op = "create_category" /\ Acyclic) => Acyclic']_vars

\* two categories that are each other's parent
C8_Witness ==
  /\ Len(categories) = 2
  /\ categories[1].parent_id = 2
  /\ categories[2].parent_id = 1

\* C9: delete_category of an active category sets its is_active to false
\* and changes nothing else; of a missing or inactive category it fails
\* with CategoryNotFound and changes nothing.
C9_SoftDeleteCategory ==
  [][\A id \in CategoryIds :
       delete_category(id)
         => IF id \in 1..Len(categories) /\ categories[id].is_active
              THEN /\ categories' = [categories EXCEPT ![id].is_active = FALSE]
                   /\ products' = products
                   /\ last'.result \notin ErrorKinds \cup {"InternalServerError"}
              ELSE /\ last'.result = "CategoryNotFound"
                   /\ UNCHANGED <<categories, products>>]_vars

\* C10: a review mutation with no other review mutation in flight during
\* it ends, at the commit of its rating write, with the rating equal to
\* the mean of the active reviews.
C10_SecondCommitEndsWindow ==
  [][\A p \in Requests, product_id \in 1..Len(products) :
       (write_rating(p) /\ ~req[p].overlap /\ req[p].product_id = product_id)
         => RatingIsMean(product_id)']_vars

\* the window: one request alone, its review change committed, the rating
\* still the value from before and not the mean
C10_Witness ==
  \E p \in Requests :
    /\ req[p].pc \in {"committed", "read"}
    /\ ~req[p].overlap
    /\ \A q \in Requests \ {p} : req[q].pc = "idle"
    /\ Len(reviews) = 1
    /\ reviews[1].is_active
    /\ products[req[p].product_id].rating = <<0, 1>>
    /\ ~RatingIsMean(req[p].product_id)

====
